---- MODULE Spec2Model ----
(***************************************************************************)
(* Model of the LockAndReleaseContract (contracts/lock_release/src/lib.rs, *)
(* the active contract body at lines 402-598).                             *)
(*                                                                         *)
(* The contract runs on the Soroban host.  Every entry point is one        *)
(* invocation: the host runs the handler on the instance storage and the   *)
(* token ledgers, and either commits everything the handler wrote or, when *)
(* the handler panics (panic_with_error, a failed require_auth, an unwrap  *)
(* of None, a failing token call), discards every write of the invocation. *)
(* Under Spec each action is one whole invocation of one entry point;      *)
(* under SpecNested lock and release advance from one call of the token    *)
(* contract to the next, so that what the token does in between is         *)
(* visible.                                                                *)
(*                                                                         *)
(* Amounts, fees and balances are i128.  They are kept as exact integers   *)
(* of any size (sign and base-256 digits), so that the largest i128 and    *)
(* the products that no longer fit in an i128 are values of the model.     *)
(***************************************************************************)
EXTENDS Integers, Sequences, FiniteSets, TLC

\* overflow_checks: whether the contract was built with overflow checks (an
\* i128 operation that overflows panics) or without (it wraps); the source
\* does not say, and a deployed build is one or the other for good
VARIABLES storage, balances, last, ncalls, frame, overflow_checks

vars == <<storage, balances, last, ncalls, frame, overflow_checks>>

(***************************************************************************)
(* Bounds of the model.                                                    *)
(***************************************************************************)
\* the largest amount passed to lock and release
MaxAmount == 2
\* balance every external account starts with, in every token
InitBal == 2
\* number of committed (successful) invocations explored
MaxCalls == 4
\* number of calls back into the contract a token makes during one invocation
MaxNested == 1
\* number of committed invocations after which lock and release are no longer
\* followed step by step
MaxStepCalls == 3

(***************************************************************************)
(* Exact integers.  A number is [neg, mag]: its sign and the base-256      *)
(* digits of its magnitude, least significant first, without leading zero  *)
(* digit (zero is the empty magnitude, not negative).                      *)
(***************************************************************************)
Base == 256

RECURSIVE MagOf(_)
MagOf(n) == IF n = 0 THEN <<>> ELSE <<n % Base>> \o MagOf(n \div Base)

\* the number written as the integer literal n
Num(n) ==
    IF n < 0 THEN [neg |-> TRUE, mag |-> MagOf(0 - n)]
    ELSE [neg |-> FALSE, mag |-> MagOf(n)]

RECURSIVE Trim(_)
Trim(m) == IF m # <<>> /\ m[Len(m)] = 0 THEN Trim(SubSeq(m, 1, Len(m) - 1)) ELSE m

Digit(m, i) == IF i <= Len(m) THEN m[i] ELSE 0

RECURSIVE MagCmpFrom(_, _, _)
MagCmpFrom(a, b, i) ==
    IF i = 0 THEN 0
    ELSE IF a[i] < b[i] THEN 0 - 1
    ELSE IF a[i] > b[i] THEN 1
    ELSE MagCmpFrom(a, b, i - 1)

\* -1, 0 or 1 as the magnitude a is below, equal to or above the magnitude b
MagCmp(a, b) ==
    IF Len(a) < Len(b) THEN 0 - 1
    ELSE IF Len(a) > Len(b) THEN 1
    ELSE MagCmpFrom(a, b, Len(a))

RECURSIVE MagAddFrom(_, _, _, _)
MagAddFrom(a, b, i, carry) ==
    IF i > Len(a) /\ i > Len(b)
    THEN IF carry = 0 THEN <<>> ELSE <<carry>>
    ELSE LET d == Digit(a, i) + Digit(b, i) + carry
         IN  <<d % Base>> \o MagAddFrom(a, b, i + 1, d \div Base)

MagAdd(a, b) == MagAddFrom(a, b, 1, 0)

RECURSIVE MagSubFrom(_, _, _, _)
MagSubFrom(a, b, i, borrow) ==
    IF i > Len(a) THEN <<>>
    ELSE LET d == Digit(a, i) - Digit(b, i) - borrow
         IN  IF d < 0 THEN <<d + Base>> \o MagSubFrom(a, b, i + 1, 1)
             ELSE <<d>> \o MagSubFrom(a, b, i + 1, 0)

\* a - b for magnitudes a >= b
MagSub(a, b) == Trim(MagSubFrom(a, b, 1, 0))

RECURSIVE MagMulDigitFrom(_, _, _, _)
MagMulDigitFrom(a, d, i, carry) ==
    IF i > Len(a)
    THEN IF carry = 0 THEN <<>> ELSE <<carry>>
    ELSE LET p == a[i] * d + carry
         IN  <<p % Base>> \o MagMulDigitFrom(a, d, i + 1, p \div Base)

RECURSIVE MagMulFrom(_, _, _)
MagMulFrom(a, b, j) ==
    IF j > Len(b) THEN <<>>
    ELSE MagAdd(MagMulDigitFrom(a, b[j], 1, 0), <<0>> \o MagMulFrom(a, b, j + 1))

MagMul(a, b) == Trim(MagMulFrom(a, b, 1))

RECURSIVE MagDivFrom(_, _, _, _)
MagDivFrom(a, d, i, rem) ==
    IF i = 0 THEN <<>>
    ELSE LET cur == rem * Base + a[i]
         IN  MagDivFrom(a, d, i - 1, cur % d) \o <<cur \div d>>

\* the magnitude a divided by the integer literal d >= 1, remainder dropped
MagDiv(a, d) == Trim(MagDivFrom(a, d, Len(a), 0))

Signed(neg, mag) == [neg |-> neg /\ mag # <<>>, mag |-> mag]

Negate(a) == Signed(~a.neg, a.mag)

Plus(a, b) ==
    IF a.neg = b.neg THEN Signed(a.neg, MagAdd(a.mag, b.mag))
    ELSE IF MagCmp(a.mag, b.mag) >= 0 THEN Signed(a.neg, MagSub(a.mag, b.mag))
    ELSE Signed(b.neg, MagSub(b.mag, a.mag))

Minus(a, b) == Plus(a, Negate(b))

Times(a, b) == Signed(a.neg # b.neg, MagMul(a.mag, b.mag))

Less(a, b) ==
    IF a.neg # b.neg THEN a.neg
    ELSE IF a.neg THEN MagCmp(a.mag, b.mag) > 0
    ELSE MagCmp(a.mag, b.mag) < 0

LessEq(a, b) == ~Less(b, a)

(***************************************************************************)
(* i128: the numbers from -2^127 to 2^127 - 1.                             *)
(***************************************************************************)
\* 2^127 and 2^128 as magnitudes
Mag127 == <<0, 0, 0, 0, 0, 0, 0, 0, 0, 0, 0, 0, 0, 0, 0, 128>>
Mag128 == <<0, 0, 0, 0, 0, 0, 0, 0, 0, 0, 0, 0, 0, 0, 0, 0, 1>>

\* i128::MIN and i128::MAX
I128Min == [neg |-> TRUE, mag |-> Mag127]
I128Max == [neg |-> FALSE,
            mag |-> <<255, 255, 255, 255, 255, 255, 255, 255,
                      255, 255, 255, 255, 255, 255, 255, 127>>]

InI128(a) == LessEq(I128Min, a) /\ LessEq(a, I128Max)

\* the i128 that has the low 128 bits of a (two's complement)
WrapI128(a) ==
    LET low == Trim(SubSeq(a.mag, 1, IF Len(a.mag) < 16 THEN Len(a.mag) ELSE 16))
        pos == IF a.neg /\ low # <<>> THEN MagSub(Mag128, low) ELSE low
    IN  IF MagCmp(pos, Mag127) >= 0
        THEN Signed(TRUE, MagSub(Mag128, pos))
        ELSE Signed(FALSE, pos)

\* what an i128 operation that panicked leaves in place of its result
Overflowed == [overflowed |-> TRUE]

\* the result of an i128 operation (*, -) whose exact result is r: r when it
\* is an i128; otherwise the operation panics ("attempt to multiply with
\* overflow") in a build with overflow checks and wraps in a build without
I128(r) ==
    IF r = Overflowed THEN Overflowed
    ELSE IF InI128(r) THEN r
    ELSE IF overflow_checks THEN Overflowed
    ELSE WrapI128(r)

(***************************************************************************)
(* Addresses, tokens and the inputs the entry points are called with.      *)
(***************************************************************************)
\* env.current_contract_address()
Self == "self"
Accounts == {"alice", "bob"}
Addr == Accounts \cup {Self}
NoAddr == "none"
Tokens == {"tokA", "tokB"}
\* amounts (i128, signed): negative, zero, the smallest, the largest of the
\* small ones, and the largest i128
Amounts == {Num(0 - 1), Num(0), Num(1), Num(MaxAmount), I128Max}
\* values given to initialize as fee_percentage (i128, not validated)
Fees == {Num(0 - 50), Num(0), Num(99), Num(100)}
\* the sets of addresses that authorized an invocation: one account signs
\* it; the contract is no account and never signs
AuthSets == {{a} : a \in Accounts}
\* (dest_token, dest_chain, recipient_address) of a lock
Dests == {[dest_token |-> "dUSD", dest_chain |-> "ch1", recipient_address |-> "rcpA"]}
NoDest == [dest_token |-> "", dest_chain |-> "", recipient_address |-> ""]

(***************************************************************************)
(* Error codes.  The contract raises Error(ScErrorType::Contract, code);   *)
(* the host raises Error(Auth, InvalidAction) for a failed require_auth,   *)
(* traps on Option::unwrap of None, and the token contract raises its own  *)
(* errors.                                                                 *)
(***************************************************************************)
Ok == "Ok"
ExistingValue == "Contract:ExistingValue"
InvalidAction == "Contract:InvalidAction"
MissingValue == "Contract:MissingValue"
AuthError == "Auth:InvalidAction"
UnwrapNone == "WasmVm:InvalidAction"
\* a Rust panic ("attempt to multiply with overflow") traps like the unwrap
OverflowPanic == "WasmVm:InvalidAction"
TokenNegative == "Token:NegativeAmount"
TokenBalance == "Token:BalanceError"

\* DataKey
DataKey == {"Init", "Owner", "Admin", "LockData", "Config"}

(***************************************************************************)
(* env.storage().instance(): a map from the keys present to their values.  *)
(***************************************************************************)
Has(st, k) == k \in DOMAIN st
Get(st, k) == st[k]
Set(st, k, v) == [x \in (DOMAIN st) \cup {k} |-> IF x = k THEN v ELSE st[x]]
Remove(st, k) == [x \in (DOMAIN st) \ {k} |-> st[x]]
EmptyStorage == [x \in {} |-> TRUE]

(***************************************************************************)
(* i128 division by a positive literal truncates toward zero (and cannot   *)
(* overflow).                                                              *)
(***************************************************************************)
Div(a, b) == Signed(a.neg, MagDiv(a.mag, b))

\* let fee = in_amount * config.fee_percentage / 100;
\* the product is an i128 operation of its own, made before the division
Fee(in_amount, fee_percentage) ==
    LET product == I128(Times(in_amount, fee_percentage))
    IN  IF product = Overflowed THEN Overflowed ELSE Div(product, 100)

\* let swaped_amount = in_amount - fee;
SwapedAmount(in_amount, fee) ==
    IF fee = Overflowed THEN Overflowed ELSE I128(Minus(in_amount, fee))

(***************************************************************************)
(* The outcome of running a handler: its error (Ok when it returns), and   *)
(* the storage, balances and events as the handler left them.              *)
(***************************************************************************)
Outcome(err, st, bal, ev) == [err |-> err, storage |-> st, balances |-> bal, events |-> ev]
Panic(err, st, bal) == Outcome(err, st, bal, <<>>)

\* mutant of RequireAuth: the authorization is not checked
RequireAuthSkipped(a, auth) == TRUE

\* address.require_auth()
RequireAuth(a, auth) == a \in auth

(***************************************************************************)
(* token::Client::new(&env, &token).balance / .transfer.  The token is the *)
(* standard (SEP-41) token: transfer requires from's authorization (the    *)
(* calling contract authorizes for itself), rejects a negative amount and  *)
(* rejects an amount above from's balance; otherwise it debits from and    *)
(* credits to.  The supply of a token is an i128, so that no credit        *)
(* overflows a balance.                                                    *)
(***************************************************************************)
Balance(bal, token, a) == bal[token][a]

TransferError(bal, token, from, amount, auth) ==
    IF Less(amount, Num(0)) THEN TokenNegative
    ELSE IF ~(from = Self \/ RequireAuth(from, auth)) THEN AuthError
    ELSE IF Less(Balance(bal, token, from), amount) THEN TokenBalance
    ELSE Ok

Transfer(bal, token, from, to, amount) ==
    LET debited == [bal EXCEPT ![token][from] = Minus(@, amount)]
    IN  [debited EXCEPT ![token][to] = Plus(@, amount)]

(***************************************************************************)
(* Events published by the handlers: (topics, data).                       *)
(***************************************************************************)
\* the unit value ()
Unit == <<>>

AdminAddedEvent(admin) ==
    [topics |-> <<"AdminAddedEvent", admin>>, data |-> [admin_address |-> admin]]
\* let topics = ("AdminRemovedEvent", ()); publish(topics, ())
AdminRemovedEvent == [topics |-> <<"AdminRemovedEvent", Unit>>, data |-> Unit]
LockEvent(ld) ==
    [topics |-> <<"LockEvent", ld.user_address, ld.dest_token, ld.in_amount, ld.swaped_amount>>,
     data |-> ld]
ReleaseEvent(user, destination_token, amount) ==
    [topics |-> <<"ReleaseEvent", user, destination_token, amount>>, data |-> Unit]

\* mutant of LockData: swaped_amount is filled with in_amount
LockDataInAmount(user_address, from_token, dest, in_amount, swaped_amount) ==
    [user_address |-> user_address,
     dest_token |-> dest.dest_token,
     from_token |-> from_token,
     in_amount |-> in_amount,
     swaped_amount |-> in_amount,
     recipient_address |-> dest.recipient_address,
     dest_chain |-> dest.dest_chain]

\* struct LockData
LockData(user_address, from_token, dest, in_amount, swaped_amount) ==
    [user_address |-> user_address,
     dest_token |-> dest.dest_token,
     from_token |-> from_token,
     in_amount |-> in_amount,
     swaped_amount |-> swaped_amount,
     recipient_address |-> dest.recipient_address,
     dest_chain |-> dest.dest_chain]

(***************************************************************************)
(* The entry points, statement by statement.  A handler that panics keeps  *)
(* in its outcome whatever it had already written; the host decides what   *)
(* survives (HostCommit).                                                  *)
(***************************************************************************)
\* mutant of initialize: a repeated call keeps the owner and replaces the fee
initializeReconfigure(st, bal, owner, fee_percentage) ==
    IF Has(st, "Init")
    THEN Outcome(Ok, Set(st, "Config", [fee_percentage |-> fee_percentage]), bal, <<>>)
    ELSE LET s1 == Set(st, "Owner", owner)
             s2 == Set(s1, "Config", [fee_percentage |-> fee_percentage])
             s3 == Set(s2, "Init", TRUE)
         IN  Outcome(Ok, s3, bal, <<>>)

\* mutant of initialize: no check of DataKey::Init
initializeNoCheck(st, bal, owner, fee_percentage) ==
    LET s1 == Set(st, "Owner", owner)
        s2 == Set(s1, "Config", [fee_percentage |-> fee_percentage])
        s3 == Set(s2, "Init", TRUE)
    IN  Outcome(Ok, s3, bal, <<>>)

\* pub fn initialize(env, owner, fee_percentage)
initialize(st, bal, owner, fee_percentage) ==
    IF Has(st, "Init") THEN Panic(ExistingValue, st, bal)
    ELSE LET s1 == Set(st, "Owner", owner)
             s2 == Set(s1, "Config", [fee_percentage |-> fee_percentage])
             s3 == Set(s2, "Init", TRUE)
         IN  Outcome(Ok, s3, bal, <<>>)

\* mutant of add_admin: the owner's authorization is not required
add_adminNoAuth(st, bal, admin, auth) ==
    IF ~Has(st, "Owner") THEN Panic(UnwrapNone, st, bal)
    ELSE IF Has(st, "Admin") THEN Panic(InvalidAction, st, bal)
    ELSE Outcome(Ok, Set(st, "Admin", [admin_address |-> admin]), bal,
                 <<AdminAddedEvent(admin)>>)

\* mutant of add_admin: the owner is asked only when one is stored
add_adminNoOwner(st, bal, admin, auth) ==
    IF Has(st, "Owner") /\ ~RequireAuth(Get(st, "Owner"), auth) THEN Panic(AuthError, st, bal)
    ELSE IF Has(st, "Admin") THEN Panic(InvalidAction, st, bal)
    ELSE Outcome(Ok, Set(st, "Admin", [admin_address |-> admin]), bal,
                 <<AdminAddedEvent(admin)>>)

\* mutant of add_admin: an admin already stored is replaced
add_adminOverwrite(st, bal, admin, auth) ==
    IF ~Has(st, "Owner") THEN Panic(UnwrapNone, st, bal)
    ELSE IF ~RequireAuth(Get(st, "Owner"), auth) THEN Panic(AuthError, st, bal)
    ELSE Outcome(Ok, Set(st, "Admin", [admin_address |-> admin]), bal,
                 <<AdminAddedEvent(admin)>>)

\* pub fn add_admin(env, admin)
add_admin(st, bal, admin, auth) ==
    IF ~Has(st, "Owner") THEN Panic(UnwrapNone, st, bal)
    ELSE IF ~RequireAuth(Get(st, "Owner"), auth) THEN Panic(AuthError, st, bal)
    ELSE IF Has(st, "Admin") THEN Panic(InvalidAction, st, bal)
    ELSE Outcome(Ok, Set(st, "Admin", [admin_address |-> admin]), bal,
                 <<AdminAddedEvent(admin)>>)

\* mutant of remove_admin: removing an absent admin is not an error
remove_adminSilent(st, bal, auth) ==
    IF ~Has(st, "Owner") THEN Panic(UnwrapNone, st, bal)
    ELSE IF ~RequireAuth(Get(st, "Owner"), auth) THEN Panic(AuthError, st, bal)
    ELSE Outcome(Ok, Remove(st, "Admin"), bal, <<AdminRemovedEvent>>)

\* pub fn remove_admin(env)
remove_admin(st, bal, auth) ==
    IF ~Has(st, "Owner") THEN Panic(UnwrapNone, st, bal)
    ELSE IF ~RequireAuth(Get(st, "Owner"), auth) THEN Panic(AuthError, st, bal)
    ELSE IF ~Has(st, "Admin") THEN Panic(MissingValue, st, bal)
    ELSE Outcome(Ok, Remove(st, "Admin"), bal, <<AdminRemovedEvent>>)

\* mutant of LockPrecheck: the amount is validated before the admin is looked up
LockPrecheckAmountFirst(st, user_address, in_amount, auth) ==
    IF ~RequireAuth(user_address, auth) THEN AuthError
    ELSE IF Less(in_amount, Num(1)) THEN InvalidAction
    ELSE IF ~Has(st, "Admin") THEN MissingValue
    ELSE IF ~Has(st, "Config") THEN UnwrapNone
    ELSE Ok

\* lock, lines 509-525: the checks made before the fee is computed
LockPrecheck(st, user_address, in_amount, auth) ==
    IF ~RequireAuth(user_address, auth) THEN AuthError
    ELSE IF ~Has(st, "Admin") THEN MissingValue
    ELSE IF Less(in_amount, Num(1)) THEN InvalidAction
    ELSE IF ~Has(st, "Config") THEN UnwrapNone
    ELSE Ok

\* lock, lines 509-534: every check made before the first transfer
LockChecks(st, user_address, in_amount, auth) ==
    IF LockPrecheck(st, user_address, in_amount, auth) # Ok
    THEN LockPrecheck(st, user_address, in_amount, auth)
    ELSE LET fee == Fee(in_amount, Get(st, "Config").fee_percentage)
             swaped_amount == SwapedAmount(in_amount, fee)
         IN  IF swaped_amount = Overflowed THEN OverflowPanic
             ELSE IF Less(swaped_amount, Num(1)) THEN InvalidAction
             ELSE Ok

\* mutant of lock: the second transfer is tried and its failure ignored, so
\* lock carries on to the event and the LockData write
lockIgnoresTransferError(st, bal, user_address, from_token, dest, in_amount, auth) ==
    IF LockChecks(st, user_address, in_amount, auth) # Ok
    THEN Panic(LockChecks(st, user_address, in_amount, auth), st, bal)
    ELSE
      LET config == Get(st, "Config")
          fee == Fee(in_amount, config.fee_percentage)
          swaped_amount == SwapedAmount(in_amount, fee)
          e1 == TransferError(bal, from_token, user_address, in_amount, auth)
          bal1 == Transfer(bal, from_token, user_address, Self, in_amount)
          admin_data == Get(st, "Admin")
          e2 == TransferError(bal1, from_token, Self, swaped_amount, auth)
          bal2 == Transfer(bal1, from_token, Self, admin_data.admin_address, swaped_amount)
          ld == LockData(user_address, from_token, dest, in_amount, swaped_amount)
      IN  IF e1 # Ok THEN Panic(e1, st, bal)
          ELSE Outcome(Ok, Set(st, "LockData", ld), IF e2 # Ok THEN bal1 ELSE bal2,
                       <<LockEvent(ld)>>)

\* pub fn lock(env, user_address, from_token, dest_token, in_amount, dest_chain,
\*             recipient_address)
lock(st, bal, user_address, from_token, dest, in_amount, auth) ==
    IF LockChecks(st, user_address, in_amount, auth) # Ok
    THEN Panic(LockChecks(st, user_address, in_amount, auth), st, bal)
    ELSE
      LET config == Get(st, "Config")
          fee == Fee(in_amount, config.fee_percentage)
          swaped_amount == SwapedAmount(in_amount, fee)
          e1 == TransferError(bal, from_token, user_address, in_amount, auth)
          bal1 == Transfer(bal, from_token, user_address, Self, in_amount)
          admin_data == Get(st, "Admin")
          e2 == TransferError(bal1, from_token, Self, swaped_amount, auth)
          bal2 == Transfer(bal1, from_token, Self, admin_data.admin_address, swaped_amount)
          ld == LockData(user_address, from_token, dest, in_amount, swaped_amount)
      IN  IF e1 # Ok THEN Panic(e1, st, bal)
          ELSE IF e2 # Ok THEN Panic(e2, st, bal1)
          ELSE Outcome(Ok, Set(st, "LockData", ld), bal2, <<LockEvent(ld)>>)

\* mutant of release: the balance check is strict (admin_balance <= amount)
releaseStrictBalance(st, bal, amount, user, destination_token, auth) ==
    IF ~Has(st, "Admin") THEN Panic(UnwrapNone, st, bal)
    ELSE
      LET admin == Get(st, "Admin").admin_address
          admin_balance == Balance(bal, destination_token, admin)
          e == TransferError(bal, destination_token, admin, amount, auth)
      IN  IF ~RequireAuth(admin, auth) THEN Panic(AuthError, st, bal)
          ELSE IF LessEq(admin_balance, amount) THEN Panic(InvalidAction, st, bal)
          ELSE IF e # Ok THEN Panic(e, st, bal)
          ELSE Outcome(Ok, st, Transfer(bal, destination_token, admin, user, amount),
                       <<ReleaseEvent(user, destination_token, amount)>>)

\* release, lines 579-582: the checks made before the admin's balance is asked
ReleasePrecheck(st, auth) ==
    IF ~Has(st, "Admin") THEN UnwrapNone
    ELSE IF ~RequireAuth(Get(st, "Admin").admin_address, auth) THEN AuthError
    ELSE Ok

\* pub fn release(env, amount, user, destination_token)
release(st, bal, amount, user, destination_token, auth) ==
    IF ~Has(st, "Admin") THEN Panic(UnwrapNone, st, bal)
    ELSE
      LET admin == Get(st, "Admin").admin_address
          admin_balance == Balance(bal, destination_token, admin)
          e == TransferError(bal, destination_token, admin, amount, auth)
      IN  IF ~RequireAuth(admin, auth) THEN Panic(AuthError, st, bal)
          ELSE IF Less(admin_balance, amount) THEN Panic(InvalidAction, st, bal)
          ELSE IF e # Ok THEN Panic(e, st, bal)
          ELSE Outcome(Ok, st, Transfer(bal, destination_token, admin, user, amount),
                       <<ReleaseEvent(user, destination_token, amount)>>)

(***************************************************************************)
(* The host ends an invocation: a handler that returned commits its        *)
(* storage, balances and events; a handler that panicked leaves the ledger *)
(* as it was before the invocation (pre) and publishes nothing.            *)
(***************************************************************************)
HostCommit(pre, out) ==
    IF out.err = Ok
    THEN [storage |-> out.storage, balances |-> out.balances, events |-> out.events]
    ELSE [storage |-> pre.storage, balances |-> pre.balances, events |-> <<>>]

Pre == [storage |-> storage, balances |-> balances]

\* the record of the latest invocation: the call, its error, the events it
\* published and the ledger it started from.  A failed invocation leaves the
\* ledger as it was before it, so a run is followed up to its first failed
\* invocation: every call is still made from every ledger state reached by
\* up to MaxCalls committed invocations.
Call(op, address, token, amount, dest, auth) ==
    [op |-> op, address |-> address, token |-> token, amount |-> amount,
     dest |-> dest, auth |-> auth]

\* the amount of a call that has none
NoAmount == Num(0)

\* no call was made back into the contract
NoNested == [n |-> 0, call |-> Call("none", NoAddr, "", NoAmount, NoDest, {}), err |-> Ok]

\* no invocation of the contract is in progress
Idle == [pc |-> "idle"]
OnStack == frame.pc # "idle"

\* the end of an invocation that ran `call` with outcome `out`, during which
\* the token called back as recorded in `nested`
End(call, out, nested) ==
    LET done == HostCommit(Pre, out)
    IN  /\ storage' = done.storage
        /\ balances' = done.balances
        /\ last' = [call |-> call, err |-> out.err, events |-> done.events, pre |-> Pre,
                    nested |-> nested]
        /\ ncalls' = IF out.err = Ok THEN ncalls + 1 ELSE ncalls
        /\ frame' = Idle
        /\ UNCHANGED overflow_checks

\* the host may start an invocation
MayInvoke == ncalls < MaxCalls /\ last.err = Ok /\ ~OnStack

\* an invocation run in one step
Invoke(call, out) == MayInvoke /\ End(call, out, NoNested)

NoCall == Call("deploy", NoAddr, "", NoAmount, NoDest, {})

\* the balances at deployment: every account holds InitBal of tokA, and bob
\* holds the whole supply of tokB, the largest amount an i128 holds
InitBalances ==
    [t \in Tokens |->
        [a \in Addr |->
            IF t = "tokA" THEN (IF a \in Accounts THEN Num(InitBal) ELSE Num(0))
            ELSE IF a = "bob" THEN I128Max ELSE Num(0)]]

Init ==
    /\ storage = EmptyStorage
    /\ balances = InitBalances
    /\ last = [call |-> NoCall, err |-> Ok, events |-> <<>>,
               pre |-> [storage |-> EmptyStorage, balances |-> InitBalances],
               nested |-> NoNested]
    /\ ncalls = 0
    /\ frame = Idle
    /\ overflow_checks \in BOOLEAN

Initialize ==
    \E owner \in Addr, fee_percentage \in Fees :
        Invoke(Call("initialize", owner, "", fee_percentage, NoDest, {}),
               initialize(storage, balances, owner, fee_percentage))

AddAdmin ==
    \E admin \in Addr, auth \in AuthSets :
        Invoke(Call("add_admin", admin, "", NoAmount, NoDest, auth),
               add_admin(storage, balances, admin, auth))

RemoveAdmin ==
    \E auth \in AuthSets :
        Invoke(Call("remove_admin", NoAddr, "", NoAmount, NoDest, auth),
               remove_admin(storage, balances, auth))

Lock ==
    \E user_address \in Addr, from_token \in Tokens, dest \in Dests,
       in_amount \in Amounts, auth \in AuthSets :
        Invoke(Call("lock", user_address, from_token, in_amount, dest, auth),
               lock(storage, balances, user_address, from_token, dest, in_amount, auth))

Release ==
    \E amount \in Amounts, user \in Addr, destination_token \in Tokens, auth \in AuthSets :
        Invoke(Call("release", user, destination_token, amount, NoDest, auth),
               release(storage, balances, amount, user, destination_token, auth))

Next == Initialize \/ AddAdmin \/ RemoveAdmin \/ Lock \/ Release

Spec == Init /\ [][Next]_vars

(***************************************************************************)
(* lock and release step by step.  Each token transfer, and the balance    *)
(* release asks for, is a call into the token contract (lines 537-538,     *)
(* 541-542, 584, 593).  The token runs while lock or release waits: it     *)
(* does the work of the call (moves the amount, reads the balance) and,    *)
(* before or after that work, may call an entry point of this contract.    *)
(* frame is the invocation in progress (its call is last.call, with error  *)
(* Running): where it stands (pc: the token call it waits in, "_done" once *)
(* the token has done that call's work), the ledger and the events as the  *)
(* invocation has written them so far, the values lock or release holds in *)
(* local variables (swaped_amount, admin, admin_balance), and the latest   *)
(* call the token made back (nested: how many it made, the latest one and  *)
(* its error).  lock and release read and write no guard of any kind       *)
(* (DataKey, lines 411-417, has no key for one): a call back runs the      *)
(* entry point like any other call, on the ledger as the invocation in     *)
(* progress has left it.                                                   *)
(***************************************************************************)
\* the calls the token makes back into the contract while it runs a call of
\* the invocation `c`: the same call again, a lock or a release of one unit
\* of the token, or one of the other entry points, all signed like `c`
NestedCalls(c) ==
    {c,
     Call("lock", c.address, c.token, Num(1), c.dest, c.auth),
     Call("release", c.address, c.token, Num(1), NoDest, c.auth),
     Call("remove_admin", NoAddr, "", NoAmount, NoDest, c.auth),
     Call("add_admin", c.address, "", NoAmount, NoDest, c.auth),
     Call("initialize", c.address, "", Num(0), NoDest, {})}

Handler(c, st, bal) ==
    CASE c.op = "lock" -> lock(st, bal, c.address, c.token, c.dest, c.amount, c.auth)
      [] c.op = "release" -> release(st, bal, c.amount, c.address, c.token, c.auth)
      [] c.op = "remove_admin" -> remove_admin(st, bal, c.auth)
      [] c.op = "add_admin" -> add_admin(st, bal, c.address, c.auth)
      [] c.op = "initialize" -> initialize(st, bal, c.address, c.amount)

Work == [storage |-> frame.storage, balances |-> frame.balances]

Running == "Running"

\* the host may start an invocation that is followed step by step
MayInvokeStep == MayInvoke /\ ncalls < MaxStepCalls

\* lock or release makes its first call of the token, holding `swaped_amount`
\* and `admin` in local variables
Enter(pc, call, swaped_amount, admin) ==
    /\ frame' = [pc |-> pc, storage |-> storage, balances |-> balances, events |-> <<>>,
                 swaped_amount |-> swaped_amount, admin |-> admin,
                 admin_balance |-> NoAmount, nested |-> NoNested]
    /\ last' = [call |-> call, err |-> Running, events |-> <<>>, pre |-> Pre, nested |-> NoNested]
    /\ UNCHANGED <<storage, balances, ncalls, overflow_checks>>

\* the invocation in progress goes on to `pc`
Goto(pc) ==
    /\ frame' = [frame EXCEPT !.pc = pc]
    /\ UNCHANGED <<storage, balances, last, ncalls, overflow_checks>>

\* the invocation in progress panics with `err`
Abort(err) == End(last.call, Panic(err, frame.storage, frame.balances), frame.nested)

\* lock up to its call of the first transfer (lines 509-538): the checks, and
\* fee and swaped_amount computed from Config
LockBegin ==
    \E user_address \in Addr, from_token \in Tokens, dest \in Dests,
       in_amount \in Amounts, auth \in AuthSets :
        LET call == Call("lock", user_address, from_token, in_amount, dest, auth)
            err == LockChecks(storage, user_address, in_amount, auth)
            fee == Fee(in_amount, Get(storage, "Config").fee_percentage)
        IN  /\ MayInvokeStep
            /\ IF err # Ok
               THEN End(call, Panic(err, storage, balances), NoNested)
               ELSE Enter("transfer1", call, SwapedAmount(in_amount, fee), NoAddr)

\* release up to its call of the token's balance (lines 579-584), with the
\* admin read at line 579
ReleaseBegin ==
    \E amount \in Amounts, user \in Addr, destination_token \in Tokens, auth \in AuthSets :
        LET call == Call("release", user, destination_token, amount, NoDest, auth)
            err == ReleasePrecheck(storage, auth)
        IN  /\ MayInvokeStep
            /\ IF err # Ok
               THEN End(call, Panic(err, storage, balances), NoNested)
               ELSE Enter("balance", call, NoAmount, Get(storage, "Admin").admin_address)

\* the token, while it runs a call of lock or release, calls an entry point
TokenCallback ==
    /\ OnStack
    /\ frame.nested.n < MaxNested
    /\ \E c \in NestedCalls(last.call) :
          LET out == Handler(c, frame.storage, frame.balances)
              done == HostCommit(Work, out)
          IN  frame' = [frame EXCEPT !.storage = done.storage,
                                     !.balances = done.balances,
                                     !.events = @ \o done.events,
                                     !.nested = [n |-> @.n + 1, call |-> c, err |-> out.err]]
    /\ UNCHANGED <<storage, balances, last, ncalls, overflow_checks>>

\* the token does the work of a transfer the invocation in progress called:
\* it refuses it, and the invocation panics, or moves the amount
TokenTransfer(from, to, amount, pc) ==
    LET c == last.call
        e == TransferError(frame.balances, c.token, from, amount, c.auth)
    IN  IF e # Ok
        THEN Abort(e)
        ELSE /\ frame' = [frame EXCEPT !.pc = pc,
                                       !.balances = Transfer(@, c.token, from, to, amount)]
             /\ UNCHANGED <<storage, balances, last, ncalls, overflow_checks>>

\* the token does the first transfer of lock (lines 537-538)
LockTransfer1 ==
    /\ frame.pc = "transfer1"
    /\ TokenTransfer(last.call.address, Self, last.call.amount, "transfer1_done")

\* the first transfer returns; lock reads Admin and calls the second transfer
\* (lines 540-542)
LockAdmin ==
    /\ frame.pc = "transfer1_done"
    /\ IF ~Has(frame.storage, "Admin")
       THEN Abort(UnwrapNone)
       ELSE /\ frame' = [frame EXCEPT !.pc = "transfer2",
                                      !.admin = Get(frame.storage, "Admin").admin_address]
            /\ UNCHANGED <<storage, balances, last, ncalls, overflow_checks>>

\* the token does the second transfer of lock (lines 541-542)
LockTransfer2 ==
    /\ frame.pc = "transfer2"
    /\ TokenTransfer(Self, frame.admin, frame.swaped_amount, "transfer2_done")

\* the second transfer returns; lock publishes its event, writes LockData and
\* ends (lines 544-576)
LockEnd ==
    /\ frame.pc = "transfer2_done"
    /\ LET c == last.call
           ld == LockData(c.address, c.token, c.dest, c.amount, frame.swaped_amount)
       IN  End(c, Outcome(Ok, Set(frame.storage, "LockData", ld), frame.balances,
                          frame.events \o <<LockEvent(ld)>>),
               frame.nested)

\* the token reads the admin's balance for release (line 584)
ReleaseBalance ==
    /\ frame.pc = "balance"
    /\ frame' = [frame EXCEPT !.pc = "balance_done",
                              !.admin_balance = Balance(frame.balances, last.call.token,
                                                        frame.admin)]
    /\ UNCHANGED <<storage, balances, last, ncalls, overflow_checks>>

\* balance returns; release checks it and calls the transfer (lines 585-593)
ReleaseCheck ==
    /\ frame.pc = "balance_done"
    /\ IF Less(frame.admin_balance, last.call.amount)
       THEN Abort(InvalidAction)
       ELSE Goto("transfer")

\* the token does the transfer of release (line 593)
ReleaseTransfer ==
    /\ frame.pc = "transfer"
    /\ TokenTransfer(frame.admin, last.call.address, last.call.amount, "transfer_done")

\* the transfer returns; release publishes its event and ends (lines 595-597)
ReleaseEnd ==
    /\ frame.pc = "transfer_done"
    /\ LET c == last.call
       IN  End(c, Outcome(Ok, frame.storage, frame.balances,
                          frame.events \o <<ReleaseEvent(c.address, c.token, c.amount)>>),
               frame.nested)

NextNested ==
    \/ Initialize \/ AddAdmin \/ RemoveAdmin
    \/ LockBegin \/ ReleaseBegin
    \/ TokenCallback
    \/ LockTransfer1 \/ LockAdmin \/ LockTransfer2 \/ LockEnd
    \/ ReleaseBalance \/ ReleaseCheck \/ ReleaseTransfer \/ ReleaseEnd

SpecNested == Init /\ [][NextNested]_vars

(***************************************************************************)
(* The pause switch of the specification (sections 3, 4.1 and 4.2).  The   *)
(* source has no DataKey::Paused and no pause or unpause entry point;      *)
(* these two are written from the specification, to put the contract in    *)
(* the paused state the specification describes.                           *)
(***************************************************************************)
\* pause(): requires the owner's authorization, fails with AlreadyExists when
\* already paused, sets Paused and emits ContractPausedEvent
pause(st, bal, auth) ==
    IF ~Has(st, "Owner") THEN Panic(UnwrapNone, st, bal)
    ELSE IF ~RequireAuth(Get(st, "Owner"), auth) THEN Panic(AuthError, st, bal)
    ELSE IF Has(st, "Paused") THEN Panic(InvalidAction, st, bal)
    ELSE Outcome(Ok, Set(st, "Paused", TRUE), bal,
                 <<[topics |-> <<"ContractPausedEvent">>, data |-> <<>>]>>)

\* unpause(): requires the owner's authorization, fails with NotFound when not
\* paused, clears Paused and emits ContractUnpausedEvent
unpause(st, bal, auth) ==
    IF ~Has(st, "Owner") THEN Panic(UnwrapNone, st, bal)
    ELSE IF ~RequireAuth(Get(st, "Owner"), auth) THEN Panic(AuthError, st, bal)
    ELSE IF ~Has(st, "Paused") THEN Panic(MissingValue, st, bal)
    ELSE Outcome(Ok, Remove(st, "Paused"), bal,
                 <<[topics |-> <<"ContractUnpausedEvent">>, data |-> <<>>]>>)

PauseContract ==
    \E auth \in AuthSets :
        Invoke(Call("pause", NoAddr, "", NoAmount, NoDest, auth), pause(storage, balances, auth))

UnpauseContract ==
    \E auth \in AuthSets :
        Invoke(Call("unpause", NoAddr, "", NoAmount, NoDest, auth), unpause(storage, balances, auth))

NextPause == Next \/ PauseContract \/ UnpauseContract

SpecPause == Init /\ [][NextPause]_vars

(***************************************************************************)
(* Vocabulary of the properties: the latest invocation and the ledger it   *)
(* started from.                                                           *)
(***************************************************************************)
Op == last.call.op
PreSt == last.pre.storage
PreBal == last.pre.balances
Failed == last.err # Ok
\* the invocation changed no storage key and no balance, and published nothing
NothingChanged == storage = PreSt /\ balances = PreBal /\ last.events = <<>>
PreAdmin == PreSt["Admin"].admin_address
PreFee == PreSt["Config"].fee_percentage

\* the exact value of in_amount * fee_percentage / 100 (integer division), and
\* of in_amount less that fee
ExactFee(in_amount, fee_percentage) == Div(Times(in_amount, fee_percentage), 100)
ExactSwapped(in_amount, fee_percentage) ==
    Minus(in_amount, ExactFee(in_amount, fee_percentage))
InRange(x, lo, hi) == LessEq(Num(lo), x) /\ LessEq(x, Num(hi))

\* The error categories of the specification, as the codes the source raises
\* for them: AlreadyInitialized is ExistingValue (line 452), AlreadyExists is
\* InvalidAction (line 468), NotFound is MissingValue (line 490).
AlreadyInitialized == ExistingValue
AlreadyExists == InvalidAction
NotFound == MissingValue

(***************************************************************************)
(* C1: initialize succeeds at most once: whenever Init is already set, a   *)
(* call to initialize with any owner and any fee_percentage fails with     *)
(* AlreadyInitialized (ExistingValue) and leaves Owner, Config and Init    *)
(* (and everything else) unchanged.                                        *)
(***************************************************************************)
C1_InitializeOnce ==
    (Op = "initialize" /\ Has(PreSt, "Init")) =>
        /\ last.err = AlreadyInitialized
        /\ NothingChanged
        /\ storage["Owner"] = PreSt["Owner"]
        /\ storage["Config"] = PreSt["Config"]
        /\ Has(storage, "Init")

\* a second initialize, with another owner and another fee, was made
C1_Witness ==
    /\ Op = "initialize" /\ Has(PreSt, "Init")
    /\ last.call.address # PreSt["Owner"]
    /\ last.call.amount # PreFee
    /\ Failed

(***************************************************************************)
(* C2: for in_amount >= 1 and fee_percentage in 0..100, with an admin set  *)
(* and the depositor authorizing, lock succeeds if and only if             *)
(* in_amount - (in_amount * fee_percentage / 100) >= 1 and the depositor's *)
(* balance in from_token is at least in_amount.  (The product is an i128   *)
(* operation, line 526: it does not fit for the largest amounts.)          *)
(***************************************************************************)
C2_LockCase ==
    /\ Op = "lock"
    /\ LessEq(Num(1), last.call.amount)
    /\ Has(PreSt, "Admin")
    /\ Has(PreSt, "Config")
    /\ last.call.address \in last.call.auth
    /\ InRange(PreFee, 0, 100)

C2_LockSucceedsIff ==
    C2_LockCase =>
        (last.err = Ok <=>
            /\ LessEq(Num(1), ExactSwapped(last.call.amount, PreFee))
            /\ LessEq(last.call.amount, PreBal[last.call.token][last.call.address]))

\* a depositor that holds in_amount locks it at a fee of 99 percent: the
\* amount to forward is at least 1, and the lock panics in the product
C2_Witness ==
    /\ C2_LockCase
    /\ PreFee = Num(99)
    /\ LessEq(Num(1), ExactSwapped(last.call.amount, PreFee))
    /\ LessEq(last.call.amount, PreBal[last.call.token][last.call.address])
    /\ last.err = OverflowPanic
    /\ ~InI128(Times(last.call.amount, PreFee))

(***************************************************************************)
(* C3: after a successful lock of in_amount, with depositor, admin and     *)
(* contract distinct, the depositor's from_token balance is down by        *)
(* in_amount, the admin's is up by in_amount - fee, the contract's is up   *)
(* by fee (fee = in_amount * fee_percentage / 100), and no other balance   *)
(* changed.  (Built without overflow checks, lock computes the fee from    *)
(* the wrapped product.)                                                   *)
(***************************************************************************)
C3_LockBalances ==
    (/\ Op = "lock" /\ last.err = Ok
     /\ Cardinality({last.call.address, PreAdmin, Self}) = 3) =>
        LET t == last.call.token
            n == last.call.amount
            fee == ExactFee(n, PreFee)
        IN  balances = [PreBal EXCEPT ![t][last.call.address] = Minus(@, n),
                                      ![t][PreAdmin] = Plus(@, Minus(n, fee)),
                                      ![t][Self] = Plus(@, fee)]

\* a lock at a fee of 99 percent went through and left the contract less
\* than 99 percent of the deposit
C3_Witness ==
    /\ Op = "lock" /\ last.err = Ok
    /\ Cardinality({last.call.address, PreAdmin, Self}) = 3
    /\ PreFee = Num(99)
    /\ Less(Minus(balances[last.call.token][Self], PreBal[last.call.token][Self]),
            ExactFee(last.call.amount, PreFee))

(***************************************************************************)
(* C4, as claimed: with an admin set and authorizing, release of ANY       *)
(* integer amount A (zero and negative included) to a user distinct from   *)
(* the admin succeeds iff the admin's balance is >= A, and then moves      *)
(* exactly A from the admin to the user.                                   *)
(***************************************************************************)
C4_ReleaseEffect ==
    /\ last.err = Ok <=> LessEq(last.call.amount, PreBal[last.call.token][PreAdmin])
    /\ last.err = Ok =>
           balances = [PreBal EXCEPT ![last.call.token][last.call.address] = Plus(@, last.call.amount),
                                     ![last.call.token][PreAdmin] = Minus(@, last.call.amount)]

C4_ReleaseCase ==
    /\ Op = "release"
    /\ Has(PreSt, "Admin")
    /\ PreAdmin \in last.call.auth
    /\ last.call.address # PreAdmin

C4_AnyAmount == C4_ReleaseCase => C4_ReleaseEffect

(***************************************************************************)
(* C4, amended: the same for every amount A >= 0.  (A negative amount is   *)
(* refused by the token's transfer, whatever the admin's balance.)         *)
(***************************************************************************)
C4_NonNegativeAmount ==
    (C4_ReleaseCase /\ LessEq(Num(0), last.call.amount)) => C4_ReleaseEffect

\* a release of a positive amount that moved tokens
C4_Witness ==
    /\ C4_ReleaseCase /\ last.err = Ok /\ LessEq(Num(1), last.call.amount)
    /\ balances[last.call.token][last.call.address] =
           Plus(PreBal[last.call.token][last.call.address], last.call.amount)

(***************************************************************************)
(* C5: release moves tokens only when the address stored as Admin          *)
(* authorized the call: a release without that authorization, or with no   *)
(* Admin stored (never added, or removed), fails and moves no tokens.      *)
(***************************************************************************)
C5_ReleaseOnlyByAdmin ==
    (Op = "release" /\ (~Has(PreSt, "Admin") \/ PreAdmin \notin last.call.auth)) =>
        (Failed /\ NothingChanged)

\* after initialize, add_admin and remove_admin, an account that signs a
\* release of an amount it holds is refused
C5_Witness ==
    /\ Op = "release" /\ Failed
    /\ ncalls = 3 /\ Has(PreSt, "Init") /\ ~Has(PreSt, "Admin")
    /\ last.call.auth # {}
    /\ LessEq(Num(1), last.call.amount)

(***************************************************************************)
(* C6: while the Paused flag is set, every call to initialize, add_admin,  *)
(* remove_admin, lock and release fails with InvalidAction and changes     *)
(* neither storage nor balances.  (No entry point of the source reads a    *)
(* pause flag.)                                                            *)
(***************************************************************************)
C6_PausedRejectsCalls ==
    (/\ Has(PreSt, "Paused")
     /\ Op \in {"initialize", "add_admin", "remove_admin", "lock", "release"}) =>
        (last.err = InvalidAction /\ NothingChanged)

\* the contract was paused, and a lock went through and moved the deposit
C6_Witness ==
    /\ Has(PreSt, "Paused")
    /\ Op = "lock" /\ last.err = Ok
    /\ Has(storage, "LockData")
    /\ balances[last.call.token][last.call.address]
           = Minus(PreBal[last.call.token][last.call.address], last.call.amount)

(***************************************************************************)
(* C7: a call into lock or release made from inside a token transfer of a  *)
(* lock or release in progress fails with InvalidAction: no LockData is    *)
(* written and no token moves for it before the outer call has finished,   *)
(* and the outer call ends as if no call back had been made.  (The source  *)
(* has no reentrancy guard.)                                               *)
(***************************************************************************)
\* the balances the invocation in progress has made by itself so far
C7_OuterBalances ==
    LET c == last.call
        bal1 == Transfer(balances, c.token, c.address, Self, c.amount)
    IN  CASE frame.pc \in {"transfer1", "balance", "balance_done", "transfer"} -> balances
          [] frame.pc \in {"transfer1_done", "transfer2"} -> bal1
          [] frame.pc = "transfer2_done" ->
                Transfer(bal1, c.token, Self, frame.admin, frame.swaped_amount)
          [] frame.pc = "transfer_done" ->
                Transfer(balances, c.token, frame.admin, c.address, c.amount)

C7_NestedCallFails ==
    /\ last.nested.n > 0 => last.nested.err = InvalidAction
    /\ OnStack =>
          /\ frame.nested.n > 0 => frame.nested.err = InvalidAction
          /\ frame.storage = storage
          /\ frame.balances = C7_OuterBalances
    /\ (Op \in {"lock", "release"} /\ last.err = Ok) =>
          /\ storage = Handler(last.call, PreSt, PreBal).storage
          /\ balances = Handler(last.call, PreSt, PreBal).balances

\* during the first transfer of a lock the token called lock, and that lock
\* went through: it wrote its LockData and moved the depositor's tokens
\* while the outer lock was still in progress
C7_Witness ==
    /\ OnStack /\ Op = "lock" /\ frame.pc = "transfer1"
    /\ frame.nested.n = 1
    /\ frame.nested.call.op = "lock"
    /\ frame.nested.err = Ok
    /\ ~Has(storage, "LockData") /\ Has(frame.storage, "LockData")
    /\ Less(frame.balances[last.call.token][frame.nested.call.address],
            balances[last.call.token][frame.nested.call.address])

(***************************************************************************)
(* C8: add_admin, authorized by the owner, while an Admin is stored fails  *)
(* with AlreadyExists (InvalidAction) and leaves the admin unchanged; the  *)
(* stored admin is never replaced in place: Admin appears only by          *)
(* add_admin, disappears only by remove_admin.                             *)
(***************************************************************************)
C8_AddAdminWhenPresent ==
    /\ (/\ Op = "add_admin" /\ Has(PreSt, "Admin")
        /\ PreSt["Owner"] \in last.call.auth) =>
           (last.err = AlreadyExists /\ NothingChanged /\ storage["Admin"] = PreSt["Admin"])
    /\ (Has(PreSt, "Admin") /\ Has(storage, "Admin")) => storage["Admin"] = PreSt["Admin"]
    /\ (~Has(PreSt, "Admin") /\ Has(storage, "Admin")) => Op = "add_admin"
    /\ (Has(PreSt, "Admin") /\ ~Has(storage, "Admin")) => Op = "remove_admin"

\* the owner tried to put another address in place of the stored admin
C8_Witness ==
    /\ Op = "add_admin" /\ Has(PreSt, "Admin")
    /\ PreSt["Owner"] \in last.call.auth
    /\ last.call.address # PreAdmin
    /\ Failed

(***************************************************************************)
(* C9: remove_admin, authorized by the owner, fails with NotFound          *)
(* (MissingValue) and changes nothing when no Admin is stored; when an     *)
(* Admin is stored it succeeds and leaves Admin absent.                    *)
(***************************************************************************)
C9_RemoveAdmin ==
    (Op = "remove_admin" /\ Has(PreSt, "Owner") /\ PreSt["Owner"] \in last.call.auth) =>
        IF Has(PreSt, "Admin")
        THEN last.err = Ok /\ ~Has(storage, "Admin")
        ELSE last.err = NotFound /\ NothingChanged

\* the owner removed an admin, and the owner tried to remove an absent admin
C9_Witness ==
    /\ Op = "remove_admin" /\ Has(PreSt, "Owner") /\ PreSt["Owner"] \in last.call.auth
    /\ ~Has(PreSt, "Admin") /\ Failed
    /\ ncalls = 3

(***************************************************************************)
(* C10: while no Admin is stored (from a remove_admin to the next          *)
(* add_admin), every lock authorized by its depositor, whatever its        *)
(* arguments, fails with MissingValue, moves no tokens and writes no       *)
(* LockData.                                                               *)
(***************************************************************************)
C10_LockWithoutAdmin ==
    (Op = "lock" /\ ~Has(PreSt, "Admin") /\ last.call.address \in last.call.auth) =>
        (last.err = MissingValue /\ NothingChanged)

\* initialize, add_admin, remove_admin, then a lock of an amount below 1
C10_Witness ==
    /\ Op = "lock" /\ ~Has(PreSt, "Admin") /\ Has(PreSt, "Init") /\ ncalls = 3
    /\ last.call.address \in last.call.auth
    /\ Less(last.call.amount, Num(1))
    /\ last.err = MissingValue

(***************************************************************************)
(* C11: the Admin record changes only through calls authorized by the      *)
(* stored Owner: add_admin and remove_admin without the owner's            *)
(* authorization fail and leave Admin (and everything else) unchanged, and *)
(* no other entry point (lock, release, a repeated initialize) sets,       *)
(* replaces or clears Admin.                                               *)
(***************************************************************************)
AdminUnchanged ==
    /\ Has(storage, "Admin") <=> Has(PreSt, "Admin")
    /\ Has(storage, "Admin") => storage["Admin"] = PreSt["Admin"]

OwnerAuthorized == Has(PreSt, "Owner") /\ PreSt["Owner"] \in last.call.auth

C11_AdminOnlyByOwner ==
    /\ (Op \in {"add_admin", "remove_admin"} /\ ~OwnerAuthorized) =>
           (Failed /\ NothingChanged /\ AdminUnchanged)
    /\ Op \notin {"add_admin", "remove_admin"} => AdminUnchanged
    /\ ~AdminUnchanged => OwnerAuthorized

\* an account that is not the owner tried to add an admin where none was
\* stored, and to remove the stored one
C11_Witness ==
    /\ Op \in {"add_admin", "remove_admin"}
    /\ Has(PreSt, "Owner") /\ PreSt["Owner"] \notin last.call.auth
    /\ (Op = "add_admin") = ~Has(PreSt, "Admin")
    /\ last.err = AuthError

(***************************************************************************)
(* C12: every successful lock publishes exactly one LockEvent whose        *)
(* swaped_amount is in_amount - in_amount * fee_percentage / 100 and whose *)
(* payload is that call's LockData; every successful release publishes     *)
(* exactly one ReleaseEvent carrying (user, destination_token, amount); a  *)
(* failed lock or release publishes no event.  (Built without overflow     *)
(* checks, lock publishes the amount it computed from the wrapped          *)
(* product.)                                                               *)
(***************************************************************************)
C12_Events ==
    /\ (Op = "lock" /\ last.err = Ok) =>
          LET c == last.call
              swapped == ExactSwapped(c.amount, PreFee)
          IN  /\ Len(last.events) = 1
              /\ last.events[1].topics =
                     <<"LockEvent", c.address, c.dest.dest_token, c.amount, swapped>>
              /\ last.events[1].data =
                     [user_address |-> c.address,
                      dest_token |-> c.dest.dest_token,
                      from_token |-> c.token,
                      in_amount |-> c.amount,
                      swaped_amount |-> swapped,
                      recipient_address |-> c.dest.recipient_address,
                      dest_chain |-> c.dest.dest_chain]
              /\ last.events[1].data = storage["LockData"]
    /\ (Op = "release" /\ last.err = Ok) =>
          /\ Len(last.events) = 1
          /\ last.events[1].topics =
                 <<"ReleaseEvent", last.call.address, last.call.token, last.call.amount>>
    /\ (Op \in {"lock", "release"} /\ Failed) => last.events = <<>>

\* a lock published an event whose swaped_amount is not what in_amount and
\* the fee percentage give
C12_Witness ==
    /\ Op = "lock" /\ last.err = Ok
    /\ Len(last.events) = 1
    /\ InRange(PreFee, 0, 100)
    /\ last.events[1].topics[5] # ExactSwapped(last.call.amount, PreFee)
    /\ last.events[1].data.swaped_amount # ExactSwapped(last.call.amount, PreFee)

(***************************************************************************)
(* C13: an entry-point call that fails, at whichever step (a precondition, *)
(* the authorization, or a token transfer that fails after an earlier      *)
(* transfer went through), leaves every storage key, every token balance   *)
(* and the event log as they were before the call: a step that fails ends  *)
(* the call in failure, and nothing the call did before it remains.        *)
(***************************************************************************)
\* a step of the latest lock fails on the ledger it meets: a check, the
\* authorization, the first transfer, or the second transfer after the first
\* went through
C13_LockStepFails ==
    LET c == last.call
        bal1 == Transfer(PreBal, c.token, c.address, Self, c.amount)
    IN  IF LockChecks(PreSt, c.address, c.amount, c.auth) # Ok THEN TRUE
        ELSE IF TransferError(PreBal, c.token, c.address, c.amount, c.auth) # Ok THEN TRUE
        ELSE TransferError(bal1, c.token, Self,
                           SwapedAmount(c.amount, Fee(c.amount, PreFee)), c.auth) # Ok

\* a step of the latest release fails: the admin lookup, the authorization,
\* the balance check or the transfer
C13_ReleaseStepFails ==
    LET c == last.call
    IN  IF ReleasePrecheck(PreSt, c.auth) # Ok THEN TRUE
        ELSE IF Less(Balance(PreBal, c.token, PreAdmin), c.amount) THEN TRUE
        ELSE TransferError(PreBal, c.token, PreAdmin, c.amount, c.auth) # Ok

C13_StepFails ==
    \/ Op = "lock" /\ C13_LockStepFails
    \/ Op = "release" /\ C13_ReleaseStepFails

C13_FailedCallChangesNothing ==
    /\ Failed => NothingChanged
    /\ C13_StepFails => (Failed /\ NothingChanged)

\* the second transfer of a lock failed after the first moved the deposit
\* into the contract
C13_Witness ==
    /\ Op = "lock" /\ Failed /\ C13_StepFails
    /\ LockChecks(PreSt, last.call.address, last.call.amount, last.call.auth) = Ok
    /\ TransferError(PreBal, last.call.token, last.call.address, last.call.amount,
                     last.call.auth) = Ok
    /\ last.err = TokenBalance

(***************************************************************************)
(* C14: within one lock call the LockData snapshot is written to storage   *)
(* before either token transfer is issued, so whatever runs during the     *)
(* first transfer (user to contract) already finds this call's LockData in *)
(* the contract's storage.  (The source writes LockData at lines 564-575,  *)
(* after both transfers and the event.)                                    *)
(***************************************************************************)
C14_LockDataBeforeTransfers ==
    (OnStack /\ Op = "lock") =>
        LET c == last.call
            fee == Fee(c.amount, Get(frame.storage, "Config").fee_percentage)
        IN  /\ Has(frame.storage, "LockData")
            /\ frame.storage["LockData"] =
                   [user_address |-> c.address,
                    dest_token |-> c.dest.dest_token,
                    from_token |-> c.token,
                    in_amount |-> c.amount,
                    swaped_amount |-> SwapedAmount(c.amount, fee),
                    recipient_address |-> c.dest.recipient_address,
                    dest_chain |-> c.dest.dest_chain]

\* the token ran code of its own during the first transfer of a lock, and the
\* contract's storage held no LockData
C14_Witness ==
    /\ OnStack /\ Op = "lock" /\ frame.pc = "transfer1"
    /\ frame.nested.n = 1
    /\ ~Has(frame.storage, "LockData")

(***************************************************************************)
(* C15: lock called with a depositor balance in from_token smaller than    *)
(* in_amount, all other preconditions holding, is rejected by a balance    *)
(* check of the contract with InvalidAction before any transfer is         *)
(* attempted, not by the failure of the token's transfer.  (The source     *)
(* never queries the depositor's balance.)                                 *)
(***************************************************************************)
C15_LockCase ==
    /\ Op = "lock"
    /\ LockChecks(PreSt, last.call.address, last.call.amount, last.call.auth) = Ok
    /\ Less(PreBal[last.call.token][last.call.address], last.call.amount)

C15_PreflightBalanceCheck == C15_LockCase => (last.err = InvalidAction /\ NothingChanged)

\* such a lock was ended by the token's transfer, with the token's error
C15_Witness == C15_LockCase /\ last.err = TokenBalance

(***************************************************************************)
(* C16: once initialize has succeeded, Owner, Config.fee_percentage and    *)
(* Init keep their values in every later state: no add_admin,              *)
(* remove_admin, lock, release or further initialize changes or clears     *)
(* them.  (Stated of every invocation that starts with Init set.)          *)
(***************************************************************************)
C16_InitRecordsImmutable ==
    Has(PreSt, "Init") =>
        /\ Has(storage, "Init")
        /\ Has(storage, "Owner") /\ storage["Owner"] = PreSt["Owner"]
        /\ Has(storage, "Config") /\ storage["Config"].fee_percentage = PreFee

\* initialize, add_admin, a lock and remove_admin have all gone through
C16_Witness ==
    /\ ncalls = 4 /\ Op = "remove_admin" /\ last.err = Ok
    /\ Has(storage, "LockData")
    /\ Has(storage, "Init") /\ storage["Owner"] = PreSt["Owner"]

(***************************************************************************)
(* C17: in every reachable state where Config is stored, fee_percentage is *)
(* between 0 and 100 inclusive; hence for every successful lock            *)
(* 0 <= fee <= in_amount and 1 <= swaped_amount <= in_amount.  (initialize *)
(* stores the fee_percentage it is given, whatever it is.)                 *)
(***************************************************************************)
C17_FeeInRange ==
    /\ Has(storage, "Config") => InRange(storage["Config"].fee_percentage, 0, 100)
    /\ (Op = "lock" /\ last.err = Ok) =>
          LET in_amount == last.call.amount
              fee == Fee(in_amount, PreFee)
              swapped == storage["LockData"].swaped_amount
          IN  /\ LessEq(Num(0), fee) /\ LessEq(fee, in_amount)
              /\ LessEq(Num(1), swapped) /\ LessEq(swapped, in_amount)

\* a lock went through that forwarded more to the admin than was deposited
C17_Witness ==
    /\ Op = "lock" /\ last.err = Ok
    /\ Less(PreFee, Num(0))
    /\ Less(last.call.amount, storage["LockData"].swaped_amount)

(***************************************************************************)
(* C18: the fee of every lock stays in the contract's custody: the         *)
(* contract's own balance in each token never decreases, and, the contract *)
(* address not acting as depositor, admin or release recipient, it grows   *)
(* by exactly in_amount * fee_percentage / 100 with every successful lock  *)
(* of that token and by nothing else (so it is the sum of the fees).       *)
(***************************************************************************)
SelfActs ==
    \/ Op \in {"lock", "release"} /\ last.call.address = Self
    \/ Has(PreSt, "Admin") /\ PreAdmin = Self

C18_FeeStaysInCustody ==
    \A t \in Tokens :
        /\ LessEq(PreBal[t][Self], balances[t][Self])
        /\ ~SelfActs =>
              balances[t][Self] =
                  Plus(PreBal[t][Self],
                       IF Op = "lock" /\ last.err = Ok /\ last.call.token = t
                       THEN ExactFee(last.call.amount, PreFee) ELSE Num(0))

\* a lock went through that paid the admin out of the contract's custody
C18_Witness ==
    /\ Op = "lock" /\ last.err = Ok
    /\ PreAdmin # Self /\ last.call.address # Self
    /\ Less(balances[last.call.token][Self], PreBal[last.call.token][Self])

(***************************************************************************)
(* C19: LockData is either absent (no lock has succeeded yet) or exactly   *)
(* the arguments and the computed swaped_amount of the most recent         *)
(* successful lock: a successful lock stores its own snapshot, every other *)
(* call (release, add_admin, remove_admin, initialize, a failed lock)      *)
(* leaves LockData as it was, and release never reads it (it does the same *)
(* whether or not a snapshot is stored).                                   *)
(***************************************************************************)
C19_LockDataIsLastLock ==
    /\ (Op = "lock" /\ last.err = Ok) =>
          /\ Has(storage, "LockData")
          /\ storage["LockData"] =
                 [user_address |-> last.call.address,
                  dest_token |-> last.call.dest.dest_token,
                  from_token |-> last.call.token,
                  in_amount |-> last.call.amount,
                  swaped_amount |-> SwapedAmount(last.call.amount,
                                                 Fee(last.call.amount, PreFee)),
                  recipient_address |-> last.call.dest.recipient_address,
                  dest_chain |-> last.call.dest.dest_chain]
    /\ ~(Op = "lock" /\ last.err = Ok) =>
          /\ Has(storage, "LockData") <=> Has(PreSt, "LockData")
          /\ Has(storage, "LockData") => storage["LockData"] = PreSt["LockData"]
    /\ Op = "release" =>
          LET blind == release(Remove(PreSt, "LockData"), PreBal, last.call.amount,
                               last.call.address, last.call.token, last.call.auth)
          IN  /\ last.err = blind.err
              /\ last.err = Ok => balances = blind.balances

\* a lock replaced the snapshot of an earlier lock with its own
C19_Witness ==
    /\ Op = "lock" /\ last.err = Ok
    /\ Has(PreSt, "LockData")
    /\ storage["LockData"] # PreSt["LockData"]
    /\ Less(storage["LockData"].swaped_amount, storage["LockData"].in_amount)

(***************************************************************************)
(* C20: before initialize has succeeded, every call to add_admin,          *)
(* remove_admin, lock and release fails without changing storage or        *)
(* balances; hence in every reachable state Admin present implies Init,    *)
(* Owner and Config present, and LockData present implies Init present.    *)
(***************************************************************************)
C20_NothingBeforeInitialize ==
    /\ (~Has(PreSt, "Init") /\ Op \in {"add_admin", "remove_admin", "lock", "release"}) =>
           (Failed /\ NothingChanged)
    /\ Has(storage, "Admin") =>
           (Has(storage, "Init") /\ Has(storage, "Owner") /\ Has(storage, "Config"))
    /\ Has(storage, "LockData") => Has(storage, "Init")

\* add_admin was called on the contract as deployed, before any initialize
C20_Witness ==
    /\ Op = "add_admin" /\ ~Has(PreSt, "Init")
    /\ last.call.auth # {}
    /\ last.err = UnwrapNone
    /\ ~Has(storage, "Admin")

====
